---- MODULE Spec2Model ----
(***************************************************************************)
(* Model of VMD_DEMO.py: a Streamlit script that reads a workbook of       *)
(* traffic counts, aligns them on a 5-minute grid, decomposes a 24h/48h    *)
(* window with VMD (cached) and recombines the six modes with weights.     *)
(*                                                                         *)
(* Units.  A numeric spreadsheet cell is held as twice its value, so that  *)
(* a time slot of 1.5 is the integer 3.  One tick of time is 2.5 minutes:  *)
(* five minutes are 2 ticks and a day is 576 ticks.  Category weights and  *)
(* slider weights are held in tenths (1.5 is 15).  A flow is therefore an  *)
(* integer number of twentieths of a PCU.                                  *)
(***************************************************************************)
EXTENDS Integers, Sequences, FiniteSets, TLC

VARIABLES
    vmd_available,        \* VMD_AVAILABLE: the vmdpy import succeeded
    workbook,             \* content of the default year's workbook, or Missing
    year,                 \* number_input "year"
    days_to_add,          \* 1 or 2, from the duration radio
    selected_date,        \* value of the start-date selectbox: <<>> (None) or <<d>>
    show_orig, show_recon,\* display checkboxes
    show_imf,             \* the six IMF checkboxes
    slider,               \* the six weight sliders, in tenths
    load_cache,           \* st.cache_data store of load_and_preprocess
    vmd_cache,            \* st.cache_data store of run_vmd
    outcome,              \* how the last script run ended
    error_shown,          \* st.error was called in the last run
    df,                   \* result of load_and_preprocess in the last run
    y_real,               \* series handed to run_vmd in the last run
    u,                    \* components used in the last run
    weights,              \* weight vector of the last run, in tenths
    reconstructed_signal, \* reconstructed series of the last run
    plotted_data,         \* labels of the series drawn in the last run
    solver_ran,           \* the VMD solver was executed in the last run
    interactions          \* number of reruns of the session so far

vars == <<vmd_available, workbook, year, days_to_add, selected_date,
          show_orig, show_recon, show_imf, slider, load_cache, vmd_cache,
          outcome, error_shown, df, y_real, u, weights,
          reconstructed_signal, plotted_data, solver_ran, interactions>>

----------------------------------------------------------------------------
(* Bounds of the explored inputs *)

MaxRows == 2          \* rows of a workbook (over all its sheets)
MaxSlot == 2          \* largest whole time slot of a record
MaxCount == 2         \* largest vehicle count of a record
MaxLen == 2           \* length of the component series of the reconstructor
MaxMoved == 1         \* sliders away from their default in a drawn weight setting
MaxInteractions == 3  \* reruns of one session

(* Program constants *)

K == 6                \* number of modes
TicksPer5Min == 2     \* freq='5T'
TicksPerDay == 576    \* pd.Timedelta(days=1)
W_car == 10           \* 1.0
W_bus == 15           \* 1.5
W_van == 10           \* 1.0
W_truck == 20         \* 2.0
W_trailer == 30       \* 3.0
W_moto == 10          \* 1.0
SliderMin == 0        \* 0.0
SliderMax == 20       \* 2.0
SliderDefault == 10   \* 1.0
DefaultYear == 2017

----------------------------------------------------------------------------
(* Spreadsheet cells and rows *)

Num(v) == [t |-> "num", v |-> v]      \* the number v/2
Text == [t |-> "str"]                 \* a cell that is not a number

Missing == [exists |-> FALSE, sheets |-> <<>>]

RECURSIVE SumSeq(_)
SumSeq(s) == IF s = <<>> THEN 0 ELSE Head(s) + SumSeq(Tail(s))

RECURSIVE Concat(_)
Concat(ss) == IF ss = <<>> THEN <<>> ELSE Head(ss) \o Concat(Tail(ss))

SetMin(S) == CHOOSE x \in S : \A y \in S : x <= y
SetMax(S) == CHOOSE x \in S : \A y \in S : x >= y

\* variant: an unparsable cell is filled with 1 instead of 0
to_numeric_fill_one(cell) == IF cell.t = "num" THEN cell.v ELSE 2

(* pd.to_numeric(col, errors='coerce').fillna(0) on one cell *)
to_numeric(cell) == IF cell.t = "num" THEN cell.v ELSE 0

\* variant: buses weighted 1.0 instead of 1.5
Total_Flow_bus_as_car(r) ==
      to_numeric(r.car) * W_car + to_numeric(r.bus) * W_car
    + to_numeric(r.van) * W_van + to_numeric(r.truck) * W_truck
    + to_numeric(r.trailer) * W_trailer + to_numeric(r.moto) * W_moto

(* Total_Flow of one row, in twentieths of a PCU *)
Total_Flow(r) ==
      to_numeric(r.car) * W_car + to_numeric(r.bus) * W_bus
    + to_numeric(r.van) * W_van + to_numeric(r.truck) * W_truck
    + to_numeric(r.trailer) * W_trailer + to_numeric(r.moto) * W_moto

(* Datetime of one row, in ticks: Date + (slot - 1) * 5 minutes *)
Datetime(r) == r.date * TicksPerDay + ((to_numeric(r.slot) - 2) * TicksPer5Min) \div 2

(* the sheets that carry the sensor column, header-repeat rows removed *)
SheetRows(sheet) == SelectSeq(sheet.rows, LAMBDA r : r.loop /= "LoopId")

dfs(wb) ==
    LET kept == SelectSeq(wb.sheets, LAMBDA s : s.has_loop)
    IN  [i \in 1..Len(kept) |-> SheetRows(kept[i])]

full_df(wb) ==
    LET rows == Concat(dfs(wb))
    IN  [i \in 1..Len(rows) |->
            [Total_Flow |-> Total_Flow(rows[i]), Datetime |-> Datetime(rows[i])]]

\* variant: a later row of a timestamp overwrites the earlier ones
GroupByLast(full) ==
    LET keys == {full[i].Datetime : i \in 1..Len(full)}
    IN  [ts \in keys |->
            full[SetMax({i \in 1..Len(full) : full[i].Datetime = ts})].Total_Flow]

(* full_df.groupby('Datetime')['Total_Flow'].sum() *)
GroupBySum(full) ==
    LET keys == {full[i].Datetime : i \in 1..Len(full)}
    IN  [ts \in keys |->
            SumSeq([i \in 1..Len(SelectSeq(full, LAMBDA r : r.Datetime = ts)) |->
                       SelectSeq(full, LAMBDA r : r.Datetime = ts)[i].Total_Flow])]

\* variant: the end of the range is left out
date_range_open(start, end) ==
    [i \in 1..((end - start + TicksPer5Min - 1) \div TicksPer5Min) |->
        start + (i - 1) * TicksPer5Min]

(* pd.date_range(start, end, freq='5T'): start, start+5min, ... not past end *)
date_range(start, end) ==
    [i \in 1..((end - start) \div TicksPer5Min + 1) |-> start + (i - 1) * TicksPer5Min]

(* set_index('Datetime').reindex(full_idx, fill_value=0).reset_index() *)
reindex(agg, full_idx) ==
    [i \in 1..Len(full_idx) |->
        [Datetime |-> full_idx[i],
         Flow |-> IF full_idx[i] \in DOMAIN agg THEN agg[full_idx[i]] ELSE 0]]

(* load_and_preprocess: None, an exception, or the aligned frame *)
load_and_preprocess(wb) ==
    IF dfs(wb) = <<>> THEN [kind |-> "none", rows |-> <<>>]
    ELSE IF full_df(wb) = <<>> THEN [kind |-> "raise", rows |-> <<>>]
    ELSE LET agg == GroupBySum(full_df(wb))
             full_idx == date_range(SetMin(DOMAIN agg), SetMax(DOMAIN agg))
         IN  [kind |-> "df", rows |-> reindex(agg, full_idx)]

----------------------------------------------------------------------------
(* Input workbooks *)

Row(loop, date, slot, car, bus, van, truck, trailer, moto) ==
    [loop |-> loop, date |-> date, slot |-> slot, car |-> car, bus |-> bus,
     van |-> van, truck |-> truck, trailer |-> trailer, moto |-> moto]

Book(sheets) == [exists |-> TRUE, sheets |-> sheets]
Sheet(has_loop, rows) == [has_loop |-> has_loop, rows |-> rows]

CountCells(max) == {Num(2 * n) : n \in 0..max} \cup {Text}
\* whole slots 1..MaxSlot, the fractional slot 1.5 and an unparsable slot
SlotCells(max) == {Num(2 * n) : n \in 1..max} \cup {Num(3), Text}

\* a row repeating the header, and a row of the LoopId sensor carrying numbers
HeaderRow == Row("LoopId", 0, Text, Text, Text, Text, Text, Text, Text)
LoopIdRows == {HeaderRow, Row("LoopId", 0, Num(2), Num(2), Num(0), Num(0), Num(0), Num(0), Num(0))}

\* rows of day 0 with one car (1.0 PCU) or one heavy truck (2.0 PCU), and
\* rows of another sensor on day 1
DataRows(max) ==
         {Row("L1", 0, s, c[1], Num(0), Num(0), c[2], Num(0), Num(0)) :
             s \in SlotCells(max), c \in {<<Num(2), Num(0)>>, <<Num(0), Num(2)>>}}
    \cup {Row("L2", 1, s, Num(2), Num(0), Num(0), Num(0), Num(0), Num(0)) :
             s \in {Num(2), Text}}

\* one row with every combination of count cells
RichRows(max) ==
    {Row("L1", 0, s, c[1], c[2], c[3], c[4], c[5], c[6]) :
        s \in {Num(2), Text}, c \in [1..6 -> CountCells(max)]}

SeqsUpTo(S, n) == UNION {[1..k -> S] : k \in 0..n}

\* the rows split over two sheets, each with or without the sensor column
TwoSheetBooks(rowseqs, n) ==
    {Book(<<Sheet(w[3], [i \in 1..w[2] |-> w[1][i]]),
            Sheet(w[4], [i \in 1..(Len(w[1]) - w[2]) |-> w[1][w[2] + i]])>>) :
        w \in {x \in rowseqs \X (0..n) \X BOOLEAN \X BOOLEAN : x[2] <= Len(x[1])}}

LoadWorkbooks(rows, slot, count) ==
         {Book(<<Sheet(TRUE, <<r>>)>>) : r \in RichRows(count)}
    \cup TwoSheetBooks(SeqsUpTo(DataRows(slot) \cup LoopIdRows, rows), rows)

----------------------------------------------------------------------------
(* State of a session before the script has run *)

NoFrame == [kind |-> "unset", rows |-> <<>>]

Fresh(avail, wb) ==
    /\ vmd_available = avail
    /\ workbook = wb
    /\ year = DefaultYear
    /\ days_to_add = 2
    /\ selected_date = <<>>
    /\ show_orig = TRUE
    /\ show_recon = TRUE
    /\ show_imf = <<TRUE, TRUE, FALSE, FALSE, FALSE, FALSE>>
    /\ slider = [i \in 1..K |-> SliderDefault]
    /\ load_cache = <<>>
    /\ vmd_cache = <<>>
    /\ outcome = "start"
    /\ error_shown = FALSE
    /\ df = NoFrame
    /\ y_real = <<>>
    /\ u = <<>>
    /\ weights = <<>>
    /\ reconstructed_signal = <<>>
    /\ plotted_data = {}
    /\ solver_ran = FALSE
    /\ interactions = 0

----------------------------------------------------------------------------
(* The loader alone: load_and_preprocess applied to a drawn workbook *)

InitLoad == \E wb \in LoadWorkbooks(MaxRows, MaxSlot, MaxCount) : Fresh(TRUE, wb)

LoadStep ==
    /\ outcome = "start"
    /\ df' = load_and_preprocess(workbook)
    /\ outcome' = "loaded"
    /\ UNCHANGED <<vmd_available, workbook, year, days_to_add, selected_date,
                   show_orig, show_recon, show_imf, slider, load_cache, vmd_cache,
                   error_shown, y_real, u, weights, reconstructed_signal,
                   plotted_data, solver_ran, interactions>>

NextLoad == LoadStep

SpecLoad == InitLoad /\ [][NextLoad]_vars

----------------------------------------------------------------------------
(* Weighted reconstruction *)

\* variant: the slider value is used whether or not the mode is ticked
weights_ignoring_toggle(shows, sliders) == [i \in 1..K |-> sliders[i]]

(* w1..w6: the slider of a ticked mode, 0.0 for an unticked one *)
weights_of(shows, sliders) == [i \in 1..K |-> IF shows[i] THEN sliders[i] ELSE 0]

(* imfs_weighted = [u[i] * weights[i] for i in range(6)] *)
imfs_weighted(uu, w) == [i \in 1..K |-> [t \in 1..Len(uu[i]) |-> uu[i][t] * w[i]]]

RECURSIVE sum_modes(_, _, _)
sum_modes(ws, t, k) == IF k = 0 THEN 0 ELSE ws[k][t] + sum_modes(ws, t, k - 1)

\* np.sum(imfs_weighted, axis=0)
sum_axis0(ws) == [t \in 1..Len(ws[1]) |-> sum_modes(ws, t, K)]

\* np.maximum(0, x) on one sample
maximum0(x) == IF x > 0 THEN x ELSE 0

\* variant: the sum is not floored at 0
reconstruct_unclamped(uu, w) == sum_axis0(imfs_weighted(uu, w))

(* reconstructed_signal = np.maximum(0, np.sum(imfs_weighted, axis=0)) *)
reconstruct(uu, w) ==
    LET total == sum_axis0(imfs_weighted(uu, w))
    IN  [t \in 1..Len(total) |-> maximum0(total[t])]

----------------------------------------------------------------------------
(* The reconstructor alone: drawn components, toggles and sliders *)

\* some positions of the sliders: both ends, the default and one in between
SliderStops == {SliderMin, 3, SliderDefault, SliderMax}

\* six series of length len; series i is c[i] at odd and -2*c[i] at even times
ComponentSets(len) ==
    {[i \in 1..K |-> [t \in 1..len |-> IF t % 2 = 1 THEN c[i] ELSE -2 * c[i]]] :
        c \in [1..K -> {-1, 1}]}

SliderSettings(moved) ==
    {s \in [1..K -> SliderStops] :
        Cardinality({i \in 1..K : s[i] /= SliderDefault}) <= moved}

InitRecon ==
    \E uu \in ComponentSets(MaxLen), shows \in [1..K -> BOOLEAN],
       sl \in SliderSettings(MaxMoved) :
        /\ vmd_available = TRUE
        /\ workbook = Missing
        /\ year = DefaultYear
        /\ days_to_add = 2
        /\ selected_date = <<>>
        /\ show_orig = TRUE
        /\ show_recon = TRUE
        /\ show_imf = shows
        /\ slider = sl
        /\ load_cache = <<>>
        /\ vmd_cache = <<>>
        /\ outcome = "start"
        /\ error_shown = FALSE
        /\ df = NoFrame
        /\ y_real = <<>>
        /\ u = uu
        /\ weights = <<>>
        /\ reconstructed_signal = <<>>
        /\ plotted_data = {}
        /\ solver_ran = FALSE
        /\ interactions = 0

ReconStep ==
    /\ outcome = "start"
    /\ weights' = weights_of(show_imf, slider)
    /\ reconstructed_signal' = reconstruct(u, weights')
    /\ outcome' = "reconstructed"
    /\ UNCHANGED <<vmd_available, workbook, year, days_to_add, selected_date,
                   show_orig, show_recon, show_imf, slider, load_cache, vmd_cache,
                   error_shown, df, y_real, u, plotted_data, solver_ran, interactions>>

NextRecon == ReconStep

SpecRecon == InitRecon /\ [][NextRecon]_vars

----------------------------------------------------------------------------
(* The script, top to bottom *)

Years == {DefaultYear, DefaultYear + 1}

\* the file of the chosen year: only the default year's file may exist
file_of(yr) == IF yr = DefaultYear THEN workbook ELSE Missing

\* .dt.date of a timestamp
date_of(ts) == ts \div TicksPerDay

(* unique_dates = pd.Series(df['Datetime'].dt.date.unique()).dropna():     *)
(* the dates of the rows that are the first of their date, in row order    *)
unique_dates(rows) ==
    LET firsts == {i \in 1..Len(rows) :
                      \A j \in 1..(i - 1) :
                          date_of(rows[j].Datetime) /= date_of(rows[i].Datetime)}
    IN  [k \in 1..Cardinality(firsts) |->
            date_of(rows[CHOOSE i \in firsts :
                             Cardinality({j \in firsts : j < i}) = k - 1].Datetime)]

\* variant: the last date stays selectable with the 48h window
valid_start_dates_all(ud, days) == ud

(* valid_start_dates = unique_dates[:-1] if days_to_add == 2 else unique_dates *)
valid_start_dates(ud, days) ==
    IF days = 2 THEN [i \in 1..(Len(ud) - 1) |-> ud[i]] ELSE ud

(* st.sidebar.selectbox: the stored choice, or the first option, or None *)
selectbox(options, stored) ==
    IF stored /= <<>> /\ (\E j \in 1..Len(options) : options[j] = stored[1]) THEN stored
    ELSE IF options = <<>> THEN <<>>
    ELSE <<options[1]>>

\* variant: the sample at the end of the window is taken too
target_df_closed(rows, start_ts, end_ts) ==
    SelectSeq(rows, LAMBDA r : r.Datetime >= start_ts /\ r.Datetime <= end_ts)

(* mask = (Datetime >= start_ts) & (Datetime < end_ts); target_df = df[mask] *)
target_df(rows, start_ts, end_ts) ==
    SelectSeq(rows, LAMBDA r : r.Datetime >= start_ts /\ r.Datetime < end_ts)

\* a deterministic stand-in for the solver: six series of the input's length
\* whose sum is the input
ModeGain == <<2, -1, 1, -1, 1, -1>>
VMD(y) == [k \in 1..K |-> [t \in 1..Len(y) |-> ModeGain[k] * y[t]]]

\* variant: the cache is keyed by the length of the series
run_vmd_keyed_by_length(y, cache) ==
    IF \E z \in DOMAIN cache : Len(z) = Len(y)
    THEN [u |-> cache[CHOOSE z \in DOMAIN cache : Len(z) = Len(y)],
          cache |-> cache, ran |-> FALSE]
    ELSE [u |-> VMD(y), cache |-> (y :> VMD(y)) @@ cache, ran |-> TRUE]

(* @st.cache_data run_vmd: the solver runs unless the content of y was seen *)
run_vmd(y, cache) ==
    IF y \in DOMAIN cache
    THEN [u |-> cache[y], cache |-> cache, ran |-> FALSE]
    ELSE [u |-> VMD(y), cache |-> (y :> VMD(y)) @@ cache, ran |-> TRUE]

(* @st.cache_data load_and_preprocess, keyed by the file path *)
cached_load(yr, cache) ==
    IF yr \in DOMAIN cache THEN cache[yr] ELSE load_and_preprocess(file_of(yr))

plotted(so, sr, shows) ==
    (IF so THEN {<<"orig", 0>>} ELSE {}) \cup {<<"imf", i>> : i \in {j \in 1..K : shows[j]}}
    \cup (IF sr THEN {<<"recon", 0>>} ELSE {})

Halt(outc, err, frame, sel, lc, vc) ==
    [outcome |-> outc, error_shown |-> err, df |-> frame, selected_date |-> sel,
     y_real |-> <<>>, u |-> <<>>, weights |-> <<>>, reconstructed_signal |-> <<>>,
     plotted_data |-> {}, solver_ran |-> FALSE, load_cache |-> lc, vmd_cache |-> vc]

\* target_df['Flow'].values
flows_of(rows) == [i \in 1..Len(rows) |-> rows[i].Flow]

\* lines 92-205, with the aligned frame in hand
body(frame, days, stored, so, sr, shows, sliders, lc, vc) ==
    LET options == valid_start_dates(unique_dates(frame.rows), days)
        sel == selectbox(options, stored)
    IN  IF sel = <<>> THEN Halt("select_raised", FALSE, frame, sel, lc, vc)
        ELSE LET start_ts == sel[1] * TicksPerDay
                 end_ts == start_ts + days * TicksPerDay
                 target == target_df(frame.rows, start_ts, end_ts)
                 y == flows_of(target)
             IN  IF y = <<>>
                 THEN [Halt("solver_failed", FALSE, frame, sel, lc, vc) EXCEPT !.y_real = y]
                 ELSE LET r == run_vmd(y, vc)
                          w == weights_of(shows, sliders)
                      IN  [outcome |-> "rendered", error_shown |-> FALSE, df |-> frame,
                           selected_date |-> sel, y_real |-> y, u |-> r.u, weights |-> w,
                           reconstructed_signal |-> reconstruct(r.u, w),
                           plotted_data |-> plotted(so, sr, shows),
                           solver_ran |-> r.ran, load_cache |-> lc, vmd_cache |-> r.cache]

\* one run of the script with the given widget values and caches
script(yr, days, stored, so, sr, shows, sliders, lc, vc) ==
    IF ~vmd_available THEN Halt("vmd_missing", TRUE, NoFrame, <<>>, lc, vc)
    ELSE IF ~file_of(yr).exists THEN Halt("file_missing", TRUE, NoFrame, <<>>, lc, vc)
    ELSE LET frame == cached_load(yr, lc)
         IN  IF frame.kind = "raise" THEN Halt("load_raised", FALSE, NoFrame, <<>>, lc, vc)
             ELSE IF frame.kind = "none"
                  THEN Halt("no_data", FALSE, frame, <<>>, (yr :> frame) @@ lc, vc)
             ELSE body(frame, days, stored, so, sr, shows, sliders, (yr :> frame) @@ lc, vc)

DefaultShows == <<TRUE, TRUE, FALSE, FALSE, FALSE, FALSE>>
DefaultSliders == [i \in 1..K |-> SliderDefault]

\* the widgets a run got to keep their value, the others fall back to their default
Rerun(yr, days, stored, so, sr, shows, sliders, n) ==
    \E res \in {script(yr, days, stored, so, sr, shows, sliders, load_cache, vmd_cache)} :
    LET got_frame == res.outcome \in {"select_raised", "solver_failed", "rendered"}
        got_all == res.outcome = "rendered"
    IN  /\ year' = yr
        /\ days_to_add' = IF got_frame THEN days ELSE 2
        /\ selected_date' = res.selected_date
        /\ show_orig' = IF got_all THEN so ELSE TRUE
        /\ show_recon' = IF got_all THEN sr ELSE TRUE
        /\ show_imf' = IF got_all THEN shows ELSE DefaultShows
        /\ slider' = IF got_all THEN sliders ELSE DefaultSliders
        /\ load_cache' = res.load_cache
        /\ vmd_cache' = res.vmd_cache
        /\ outcome' = res.outcome
        /\ error_shown' = res.error_shown
        /\ df' = res.df
        /\ y_real' = res.y_real
        /\ u' = res.u
        /\ weights' = res.weights
        /\ reconstructed_signal' = res.reconstructed_signal
        /\ plotted_data' = res.plotted_data
        /\ solver_ran' = res.solver_ran
        /\ interactions' = n
        /\ UNCHANGED <<vmd_available, workbook>>

----------------------------------------------------------------------------
(* A session: the first run, then one rerun per widget change *)

CarAtSlot0 == Row("L1", 0, Text, Num(2), Num(0), Num(0), Num(0), Num(0), Num(0))
TruckAtSlot1 == Row("L1", 0, Num(2), Num(0), Num(0), Num(0), Num(2), Num(0), Num(0))
NextDayRow == Row("L2", 1, Num(2), Num(2), Num(2), Num(0), Num(0), Num(0), Num(0))

\* only header rows; one date; two dates five minutes apart; three dates
AppRowSeqs ==
    {<<HeaderRow>>, <<HeaderRow, TruckAtSlot1>>, <<CarAtSlot0, TruckAtSlot1>>,
     <<CarAtSlot0, TruckAtSlot1, TruckAtSlot1>>, <<CarAtSlot0, NextDayRow>>}

\* no file, or a workbook whose second sheet may lack the sensor column
AppWorkbooks ==
    {Missing} \cup
    {Book(<<Sheet(FALSE, <<TruckAtSlot1>>), Sheet(f, rs)>>) : f \in BOOLEAN, rs \in AppRowSeqs}

Init == \E avail \in BOOLEAN, wb \in AppWorkbooks : Fresh(avail, wb)

CanRerun == outcome /= "start" /\ interactions < MaxInteractions
FrameShown == outcome \in {"select_raised", "solver_failed", "rendered"}

FirstRun ==
    /\ outcome = "start"
    /\ Rerun(year, days_to_add, <<>>, show_orig, show_recon, show_imf, slider, 0)

ChangeYear(yr) ==
    /\ CanRerun /\ outcome /= "vmd_missing"
    /\ yr /= year
    /\ Rerun(yr, days_to_add, selected_date, show_orig, show_recon, show_imf, slider,
             interactions + 1)

ChangeDuration ==
    /\ CanRerun /\ FrameShown
    /\ Rerun(year, 3 - days_to_add, <<>>, show_orig, show_recon, show_imf, slider,
             interactions + 1)

SelectDate(d) ==
    /\ CanRerun /\ FrameShown
    /\ LET options == valid_start_dates(unique_dates(df.rows), days_to_add)
       IN  \E j \in 1..Len(options) : options[j] = d
    /\ <<d>> /= selected_date
    /\ Rerun(year, days_to_add, <<d>>, show_orig, show_recon, show_imf, slider,
             interactions + 1)

ToggleOrig ==
    /\ CanRerun /\ outcome = "rendered"
    /\ Rerun(year, days_to_add, selected_date, ~show_orig, show_recon, show_imf, slider,
             interactions + 1)

ToggleRecon ==
    /\ CanRerun /\ outcome = "rendered"
    /\ Rerun(year, days_to_add, selected_date, show_orig, ~show_recon, show_imf, slider,
             interactions + 1)

\* the slider of a mode is drawn only while the mode is ticked
ToggleIMF(i) ==
    /\ CanRerun /\ outcome = "rendered"
    /\ Rerun(year, days_to_add, selected_date, show_orig, show_recon,
             [show_imf EXCEPT ![i] = ~show_imf[i]],
             [slider EXCEPT ![i] = SliderDefault], interactions + 1)

MoveSlider(i, v) ==
    /\ CanRerun /\ outcome = "rendered"
    /\ show_imf[i]
    /\ v /= slider[i]
    /\ Rerun(year, days_to_add, selected_date, show_orig, show_recon, show_imf,
             [slider EXCEPT ![i] = v], interactions + 1)

Next ==
    \/ FirstRun
    \/ \E yr \in Years : ChangeYear(yr)
    \/ ChangeDuration
    \/ \E d \in -1..1 : SelectDate(d)
    \/ ToggleOrig
    \/ ToggleRecon
    \/ \E i \in 1..K : ToggleIMF(i)
    \/ \E i \in 1..K, v \in SliderStops : MoveSlider(i, v)

Spec == Init /\ [][Next]_vars

----------------------------------------------------------------------------
(* What the specification expects of the loader, stated without the model's *)
(* own operators                                                            *)

CellValue(cell) == IF cell.t = "num" THEN cell.v ELSE 0

\* 1.0 car + 1.5 bus + 1.0 light truck + 2.0 heavy truck + 3.0 trailer + 1.0 motorcycle
ExpectedFlow(r) ==
    10 * CellValue(r.car) + 15 * CellValue(r.bus) + 10 * CellValue(r.van)
    + 20 * CellValue(r.truck) + 30 * CellValue(r.trailer) + 10 * CellValue(r.moto)

\* date + (slot - 1) * 5 minutes
ExpectedTs(r) == 576 * r.date + CellValue(r.slot) - 2

\* positions <<sheet, row>> of the records the loader retains
Retained ==
    {p \in UNION {{<<s, i>> : i \in 1..Len(workbook.sheets[s].rows)} :
                    s \in 1..Len(workbook.sheets)} :
        /\ workbook.sheets[p[1]].has_loop
        /\ workbook.sheets[p[1]].rows[p[2]].loop /= "LoopId"}

RowAt(p) == workbook.sheets[p[1]].rows[p[2]]

RECURSIVE FlowOver(_)
FlowOver(P) ==
    IF P = {} THEN 0
    ELSE LET p == CHOOSE q \in P : TRUE IN ExpectedFlow(RowAt(p)) + FlowOver(P \ {p})

RetainedAt(ts) == {p \in Retained : ExpectedTs(RowAt(p)) = ts}
RetainedTs == {ExpectedTs(RowAt(p)) : p \in Retained}

Loaded == outcome = "loaded" /\ df.kind = "df"
OnGrid == \A p \in Retained : (ExpectedTs(RowAt(p)) - SetMin(RetainedTs)) % 2 = 0

GridComplete ==
    /\ 2 * (Len(df.rows) - 1) = SetMax(RetainedTs) - SetMin(RetainedTs)
    /\ \A i \in 1..(Len(df.rows) - 1) : df.rows[i + 1].Datetime = df.rows[i].Datetime + 2
    /\ df.rows[1].Datetime = SetMin(RetainedTs)
    /\ df.rows[Len(df.rows)].Datetime = SetMax(RetainedTs)
    /\ \A i \in 1..Len(df.rows) :
          RetainedAt(df.rows[i].Datetime) = {} => df.rows[i].Flow = 0
    /\ \A ts \in RetainedTs :
          \E i \in 1..Len(df.rows) :
              df.rows[i].Datetime = ts /\ df.rows[i].Flow = FlowOver(RetainedAt(ts))

(* C2 as stated: for any non-empty batch the returned series runs from the   *)
(* smallest to the largest record timestamp in 5-minute steps, has           *)
(* (max - min)/5min + 1 samples, carries 0 where there is no record and the  *)
(* aggregated flow of every record elsewhere.                                *)
C2_AnyBatch == Loaded => GridComplete

(* C2 amended: the same, for batches whose record timestamps all lie a whole *)
(* number of 5-minute steps from the smallest one.                           *)
C2_GridBatch == (Loaded /\ OnGrid) => GridComplete

C2_Witness ==
    /\ Loaded /\ OnGrid
    /\ Len(df.rows) >= 3
    /\ Cardinality(Retained) = 2
    /\ \E i \in 1..Len(df.rows) : RetainedAt(df.rows[i].Datetime) = {} /\ df.rows[i].Flow = 0
    /\ df.rows[Len(df.rows)].Flow > 0

(* C8: every sample of the aligned series carries the sum of the weighted    *)
(* flows of all retained records with its timestamp, whichever sheet or      *)
(* sensor they come from.                                                    *)
C8_SumNotOverwrite ==
    Loaded => \A i \in 1..Len(df.rows) :
                 df.rows[i].Flow = FlowOver(RetainedAt(df.rows[i].Datetime))

\* a car (1.0) in one sheet and a heavy truck (2.0) of another sensor's sheet
\* at the same timestamp give 3.0
C8_Witness ==
    /\ Loaded
    /\ \E i \in 1..Len(df.rows) :
          /\ df.rows[i].Flow = 60
          /\ \E p, q \in RetainedAt(df.rows[i].Datetime) :
                /\ p[1] /= q[1]
                /\ ExpectedFlow(RowAt(p)) = 20
                /\ ExpectedFlow(RowAt(q)) = 40

OneRecord == Cardinality(Retained) = 1
TheRecord == RowAt(CHOOSE p \in Retained : TRUE)
CountCellsOf(r) == {r.car, r.bus, r.van, r.truck, r.trailer, r.moto}

(* C9: the flow of a record is exactly 1.0 car + 1.5 bus + 1.0 light truck   *)
(* + 2.0 heavy truck + 3.0 trailer + 1.0 motorcycle; all-zero counts give 0. *)
C9_WeightedSum ==
    (outcome = "loaded" /\ OneRecord /\ \A c \in CountCellsOf(TheRecord) : c.t = "num") =>
        /\ df.kind = "df"
        /\ Len(df.rows) = 1
        /\ df.rows[1].Flow =
              10 * TheRecord.car.v + 15 * TheRecord.bus.v + 10 * TheRecord.van.v
              + 20 * TheRecord.truck.v + 30 * TheRecord.trailer.v + 10 * TheRecord.moto.v
        /\ (CountCellsOf(TheRecord) = {Num(0)} => df.rows[1].Flow = 0)

C9_Witness ==
    /\ outcome = "loaded" /\ OneRecord
    /\ TheRecord.car = Num(2) /\ TheRecord.bus = Num(4) /\ TheRecord.van = Num(0)
    /\ TheRecord.truck = Num(2) /\ TheRecord.trailer = Num(4) /\ TheRecord.moto = Num(2)
    /\ df.rows[1].Flow = 20 + 60 + 40 + 120 + 20

(* C6: an unparsable count or slot cell counts as 0 and the loader does not  *)
(* raise: the record keeps the contribution of its other cells, sits at the  *)
(* timestamp of slot 0, and every sample still carries the flows of its      *)
(* records.                                                                  *)
C6_UnparsableIsZero ==
    (outcome = "loaded" /\ Retained /= {}) =>
        /\ df.kind = "df"
        /\ OneRecord =>
              /\ Len(df.rows) = 1
              /\ df.rows[1].Datetime =
                    576 * TheRecord.date
                    + (IF TheRecord.slot.t = "num" THEN TheRecord.slot.v ELSE 0) - 2
              /\ df.rows[1].Flow = FlowOver(Retained)
        /\ \A p \in Retained :
              (RowAt(p).slot = Text /\ OnGrid) =>
                  \E i \in 1..Len(df.rows) :
                      /\ df.rows[i].Datetime = 576 * RowAt(p).date - 2
                      /\ df.rows[i].Flow >= ExpectedFlow(RowAt(p))

C6_Witness ==
    /\ outcome = "loaded" /\ OneRecord
    /\ TheRecord.slot = Text /\ TheRecord.bus = Text /\ TheRecord.car = Num(4)
    /\ TheRecord.trailer = Num(2)
    /\ Len(df.rows) = 1
    /\ df.rows[1].Datetime = -2
    /\ df.rows[1].Flow = 40 + 60

----------------------------------------------------------------------------
(* What the specification expects of the reconstructor *)

RECURSIVE SumTo(_, _)
SumTo(f, n) == IF n = 0 THEN 0 ELSE f[n] + SumTo(f, n - 1)

\* sum over the modes of component * weight at time t, before the floor
Unclamped(t) == SumTo([i \in 1..6 |-> u[i][t] * weights[i]], 6)

\* the same over the ticked modes only, with the slider positions
TickedSum(t) == SumTo([i \in 1..6 |-> IF show_imf[i] THEN u[i][t] * slider[i] ELSE 0], 6)

Reconstructed == outcome = "reconstructed"

(* C1: every value of the reconstructed series is >= 0, also where the       *)
(* weighted sum before the floor is negative; the series keeps the length of *)
(* the components and the non-negative sums are kept as they are.            *)
C1_NonNegative ==
    Reconstructed =>
        /\ Len(reconstructed_signal) = Len(u[1])
        /\ \A i \in 1..6 : weights[i] \in 0..20
        /\ \A t \in 1..Len(reconstructed_signal) :
              /\ reconstructed_signal[t] >= 0
              /\ Unclamped(t) < 0 => reconstructed_signal[t] = 0
              /\ Unclamped(t) >= 0 => reconstructed_signal[t] = Unclamped(t)

C1_Witness ==
    /\ Reconstructed
    /\ \E t \in 1..Len(reconstructed_signal) :
          Unclamped(t) < 0 /\ reconstructed_signal[t] = 0
    /\ \E t \in 1..Len(reconstructed_signal) :
          Unclamped(t) > 0 /\ reconstructed_signal[t] > 0

(* C5: an unticked mode adds nothing, whatever its slider holds: the         *)
(* reconstructed series is the floored sum over the ticked modes only of     *)
(* component * slider.                                                       *)
C5_ToggleOffExcluded ==
    Reconstructed =>
        \A t \in 1..Len(u[1]) :
            reconstructed_signal[t] = IF TickedSum(t) > 0 THEN TickedSum(t) ELSE 0

\* an unticked mode with its slider at 2.0 beside a ticked one at the default
C5_Witness ==
    /\ Reconstructed
    /\ \E i, j \in 1..6 :
          /\ ~show_imf[i] /\ slider[i] = 20 /\ u[i][1] = 1
          /\ show_imf[j] /\ slider[j] = 10 /\ u[j][1] = 1
          /\ Cardinality({k \in 1..6 : show_imf[k]}) = 1
          /\ reconstructed_signal[1] = 10

----------------------------------------------------------------------------
(* What the specification expects of a session *)

HasFrame == df.kind = "df"
DfDates == {df.rows[i].Datetime \div 576 : i \in 1..Len(df.rows)}
LastDate == CHOOSE d \in DfDates : \A e \in DfDates : e <= d
ReachedExtraction == outcome \in {"rendered", "solver_failed"}

(* C3: with the 48h window the last date of the aligned series cannot be     *)
(* selected and is never the start date of an extraction; a start date that  *)
(* reaches the extraction is a date of the series; a series of one date      *)
(* offers no date and the run stops before the extraction.                   *)
C3_LastDateExcluded ==
    /\ ReachedExtraction =>
          /\ Len(selected_date) = 1
          /\ selected_date[1] \in DfDates
          /\ days_to_add = 2 => selected_date[1] /= LastDate
    /\ (HasFrame /\ days_to_add = 2) => ~ENABLED SelectDate(LastDate)
    /\ (HasFrame /\ days_to_add = 2 /\ Cardinality(DfDates) = 1) =>
          outcome = "select_raised" /\ selected_date = <<>> /\ y_real = <<>>

\* three dates, 48h window, the middle date chosen by the user
C3_Witness ==
    /\ outcome = "rendered" /\ days_to_add = 2
    /\ DfDates = {-1, 0, 1}
    /\ selected_date = <<0>>
    /\ Len(y_real) = 289

InWindow(ts) ==
    /\ ts >= 576 * selected_date[1]
    /\ ts < 576 * (selected_date[1] + days_to_add)

(* C10: a run that reaches the decomposition hands run_vmd a non-empty       *)
(* series: the flows, in order, of exactly the aligned samples from the      *)
(* start of a selectable date up to, not including, 1 or 2 days later.       *)
C10_WindowSeries ==
    /\ outcome /= "solver_failed"
    /\ outcome = "rendered" =>
          /\ y_real /= <<>>
          /\ selected_date[1] \in DfDates \ (IF days_to_add = 2 THEN {LastDate} ELSE {})
          /\ Len(y_real) = Cardinality({i \in 1..Len(df.rows) : InWindow(df.rows[i].Datetime)})
          /\ \E lo \in 0..(Len(df.rows) - Len(y_real)) :
                \A i \in 1..Len(y_real) :
                    /\ InWindow(df.rows[lo + i].Datetime)
                    /\ y_real[i] = df.rows[lo + i].Flow

\* a 48h window that leaves out samples of the series on either side
C10_Witness ==
    /\ outcome = "rendered" /\ days_to_add = 2
    /\ Len(y_real) = 289 /\ Len(df.rows) = 290
    /\ y_real[1] = 0 /\ y_real[289] = 50

OnlyDisplayChanged ==
    /\ outcome = "rendered" /\ outcome' = "rendered"
    /\ year' = year /\ days_to_add' = days_to_add /\ selected_date' = selected_date

(* C4: the solver runs only for a series whose content was not decomposed    *)
(* before in the session: never on a rerun that changed only a display       *)
(* toggle, a mode toggle or a slider, always on a series not seen before;    *)
(* and the components in use are those of the series at hand (their sum is   *)
(* that series).                                                             *)
C4_SolverOnlyOnNewSeries ==
    [][ /\ OnlyDisplayChanged => ~solver_ran'
        /\ outcome' /= "rendered" => ~solver_ran'
        /\ outcome' = "rendered" =>
              /\ solver_ran' <=> y_real' \notin DOMAIN vmd_cache
              /\ y_real' \in DOMAIN vmd_cache'
              /\ Len(u') = 6
              /\ \A k \in 1..6 : Len(u'[k]) = Len(y_real')
              /\ \A t \in 1..Len(y_real') :
                    u'[1][t] + u'[2][t] + u'[3][t] + u'[4][t] + u'[5][t] + u'[6][t]
                        = y_real'[t]
        /\ \A y \in DOMAIN vmd_cache : y \in DOMAIN vmd_cache' ]_vars

\* a second series was decomposed after a change of window or date, and the
\* last rerun, a mode toggle, did not run the solver
C4_Witness ==
    /\ outcome = "rendered" /\ ~solver_ran
    /\ Cardinality(DOMAIN vmd_cache) = 2
    /\ show_imf /= DefaultShows
    /\ interactions >= 2

(* C7 as stated: when no sheet carries the sensor column an error is shown   *)
(* and nothing is selected, decomposed, reconstructed or drawn.              *)
C7_NoSensorColumnReported ==
    outcome = "no_data" =>
        /\ error_shown
        /\ selected_date = <<>> /\ y_real = <<>> /\ u = <<>>
        /\ reconstructed_signal = <<>> /\ plotted_data = {} /\ ~solver_ran

====
